---- MODULE Spec2Model ----
(***************************************************************************)
(* Model of python_coreml_stable_diffusion/torch2coreml_ui.py: the         *)
(* preferences store (fetch_preferences, save_preferences and their        *)
(* callers), the toolchain probe, the job descriptor built by              *)
(* convert_model and the conversion run with its busy signalling.          *)
(*                                                                         *)
(* Python strings are sequences of one-character strings, so that strip,   *)
(* basename, splitext and int are computed and not assumed.  None and ''   *)
(* are both the empty sequence: the code only ever tests their truth       *)
(* value.                                                                  *)
(***************************************************************************)
EXTENDS Integers, Sequences, FiniteSets, TLC

\* ------------------------------------------------------------------ bounds
\* user events (edits, selections, submissions, relaunches) in one behaviour
MaxSteps == 3

\* ------------------------------------------------------------ string values
Empty == <<>>
HomeDir == <<"/", "h">>
RootDir == <<"/">>
ModelDir == <<"/", "a", "/", "d">>
CkptFile == <<"/", "a", "/", "m", ".", "c", "k", "p", "t">>
DotCkptFile == <<"/", "a", "/", ".", "c", "k", "p", "t">>
OutDir == <<"/", "o">>
OldDir == <<"/", "p">>
TypedVersion == <<" ", "x", "/", "y", " ">>
Blank == <<" ">>
OldVersion == <<"r", "/", "s">>
DefaultModelVersion == <<"C", "o", "m", "p", "V", "i", "s", "/", "s", "d", "-", "v", "1", "-", "4">>
CPU_AND_NE == <<"C", "P", "U", "_", "A", "N", "D", "_", "N", "E">>
CPU_AND_GPU == <<"C", "P", "U", "_", "A", "N", "D", "_", "G", "P", "U">>
ALL == <<"A", "L", "L">>
ORIGINAL == <<"O", "R", "I", "G", "I", "N", "A", "L">>
SPLIT_EINSUM == <<"S", "P", "L", "I", "T", "_", "E", "I", "N", "S", "U", "M">>
WidthPlaceholder == <<"W", "i", "d", "t", "h">>
HeightPlaceholder == <<"H", "e", "i", "g", "h", "t">>
ControlnetPlaceholder == <<"E", "m", "p", "t", "y">>
TypedControlnet == <<"c", "n">>

ComputeUnits == {CPU_AND_NE, CPU_AND_GPU, ALL}
\* what the user can type into the model version field
VersionTexts == {Blank, TypedVersion}
\* what the user can type into the width and height fields
SizeTexts == {<<" ", "1", "6">>, <<"-", "8">>, <<"x">>}
ControlnetTexts == {TypedControlnet}
\* what askdirectory returns for the model: '' on cancel
ModelDirChoices == {Empty, RootDir, ModelDir}
\* what askopenfilename returns for the checkpoint: '' on cancel
CkptChoices == {Empty, CkptFile, DotCkptFile}
\* what askdirectory returns for the destination: '' on cancel
OutputChoices == {Empty, OutDir}

\* ------------------------------------------------------- python str helpers
IsSpace(c) == c = " "

RECURSIVE lstrip(_)
lstrip(s) == IF s # <<>> /\ IsSpace(Head(s)) THEN lstrip(Tail(s)) ELSE s

RECURSIVE rstrip(_)
rstrip(s) ==
    IF s # <<>> /\ IsSpace(s[Len(s)]) THEN rstrip(SubSeq(s, 1, Len(s) - 1)) ELSE s

\* str.strip()
strip(s) == rstrip(lstrip(s))

\* index of the last occurrence of c in s, 0 when there is none (str.rfind + 1)
rfind(s, c) ==
    LET hits == {i \in 1..Len(s) : s[i] = c}
    IN  IF hits = {} THEN 0 ELSE CHOOSE i \in hits : \A j \in hits : j <= i

\* os.path.normpath on absolute paths without '.', '..' components: repeated
\* and trailing separators are dropped, the root stays "/"
RECURSIVE normpath(_)
normpath(p) ==
    IF Len(p) > 1 /\ p[Len(p)] = "/" THEN normpath(SubSeq(p, 1, Len(p) - 1))
    ELSE IF \E i \in 1..(Len(p) - 1) : p[i] = "/" /\ p[i + 1] = "/"
         THEN LET i == CHOOSE k \in 1..(Len(p) - 1) : p[k] = "/" /\ p[k + 1] = "/"
              IN  normpath(SubSeq(p, 1, i) \o SubSeq(p, i + 2, Len(p)))
         ELSE p

\* os.path.basename: what follows the last separator
basename(p) == SubSeq(p, rfind(p, "/") + 1, Len(p))

\* os.path.splitext(p)[0]: the last dot starts the extension unless only
\* dots precede it in the file name
splitext_root(p) ==
    LET sepIndex == rfind(p, "/")
        dotIndex == rfind(p, ".")
    IN  IF dotIndex > sepIndex
           /\ \E i \in (sepIndex + 1)..(dotIndex - 1) : p[i] # "."
        THEN SubSeq(p, 1, dotIndex - 1)
        ELSE p

Digits == <<"0", "1", "2", "3", "4", "5", "6", "7", "8", "9">>
IsDigit(c) == \E d \in 1..10 : Digits[d] = c
DigitVal(c) == (CHOOSE d \in 1..10 : Digits[d] = c) - 1

RECURSIVE digits_value(_)
digits_value(s) ==
    IF s = <<>> THEN 0 ELSE 10 * digits_value(SubSeq(s, 1, Len(s) - 1)) + DigitVal(s[Len(s)])

\* int(s) raises ValueError unless s is an optional sign and decimal digits
\* (surrounding blanks allowed)
int_ok(s) ==
    LET t == strip(s)
        u == IF t # <<>> /\ Head(t) \in {"-", "+"} THEN Tail(t) ELSE t
    IN  u # <<>> /\ \A i \in 1..Len(u) : IsDigit(u[i])

int(s) ==
    LET t == strip(s)
        u == IF t # <<>> /\ Head(t) \in {"-", "+"} THEN Tail(t) ELSE t
    IN  IF t # <<>> /\ Head(t) = "-" THEN 0 - digits_value(u) ELSE digits_value(u)

\* ------------------------------------------------------ preference values
\* a python value held in a preferences dict: bool, str or pathlib.Path
BoolV(b) == [tag |-> "bool", b |-> b, s |-> Empty]
StrV(s) == [tag |-> "str", b |-> FALSE, s |-> s]
PathV(s) == [tag |-> "Path", b |-> FALSE, s |-> s]

\* python truth value
truthy(v) == IF v.tag = "bool" THEN v.b ELSE IF v.tag = "str" THEN v.s # Empty ELSE TRUE

FlagKeys ==
    {"convert_unet", "chunk_unet", "controlnet_support", "convert_text_encoder",
     "convert_vae_encoder", "convert_vae_decoder", "convert_safety_checker",
     "from_safetensors"}
PathKeys == {"last_model_location", "last_checkpoint_path", "last_output_folder"}
Keys == FlagKeys \cup PathKeys \cup {"last_model_version", "compute_unit"}

EmptyDoc == [k \in {} |-> BoolV(FALSE)]

\* d[k] = v on a python dict
dict_set(d, k, v) == [x \in DOMAIN d \cup {k} |-> IF x = k THEN v ELSE d[x]]

\* if k not in preferences: preferences[k] = v
register_default(d, k, v) == IF k \in DOMAIN d THEN d ELSE dict_set(d, k, v)

\* the preferences file: absent, not parseable as JSON, or a JSON object
MissingFile == [kind |-> "missing", doc |-> EmptyDoc]
CorruptFile == [kind |-> "corrupt", doc |-> EmptyDoc]
JsonFile(d) == [kind |-> "json", doc |-> d]

\* fetch_preferences whose chunk_unet default is assigned without the
\* "not in" test
fetch_preferences_overwriting(file) ==
    LET p0 == IF file.kind = "json" THEN file.doc ELSE EmptyDoc
        p1 == register_default(p0, "last_model_version", StrV(DefaultModelVersion))
        p2 == register_default(p1, "convert_unet", BoolV(TRUE))
        p3 == dict_set(p2, "chunk_unet", BoolV(FALSE))
        p4 == register_default(p3, "controlnet_support", BoolV(TRUE))
        p5 == register_default(p4, "convert_text_encoder", BoolV(TRUE))
        p6 == register_default(p5, "convert_vae_encoder", BoolV(TRUE))
        p7 == register_default(p6, "convert_vae_decoder", BoolV(TRUE))
        p8 == register_default(p7, "convert_safety_checker", BoolV(FALSE))
        p9 == register_default(p8, "compute_unit", StrV(CPU_AND_NE))
        p10 == register_default(p9, "from_safetensors", BoolV(FALSE))
        p11 == register_default(p10, "last_model_location", PathV(HomeDir))
        p12 == register_default(p11, "last_checkpoint_path", PathV(HomeDir))
    IN  register_default(p12, "last_output_folder", PathV(HomeDir))

fetch_preferences(file) ==
    LET p0 == IF file.kind = "json" THEN file.doc ELSE EmptyDoc
        p1 == register_default(p0, "last_model_version", StrV(DefaultModelVersion))
        p2 == register_default(p1, "convert_unet", BoolV(TRUE))
        p3 == register_default(p2, "chunk_unet", BoolV(FALSE))
        p4 == register_default(p3, "controlnet_support", BoolV(TRUE))
        p5 == register_default(p4, "convert_text_encoder", BoolV(TRUE))
        p6 == register_default(p5, "convert_vae_encoder", BoolV(TRUE))
        p7 == register_default(p6, "convert_vae_decoder", BoolV(TRUE))
        p8 == register_default(p7, "convert_safety_checker", BoolV(FALSE))
        p9 == register_default(p8, "compute_unit", StrV(CPU_AND_NE))
        p10 == register_default(p9, "from_safetensors", BoolV(FALSE))
        p11 == register_default(p10, "last_model_location", PathV(HomeDir))
        p12 == register_default(p11, "last_checkpoint_path", PathV(HomeDir))
    IN  register_default(p12, "last_output_folder", PathV(HomeDir))

\* json.dump raises TypeError on a pathlib.Path
json_serializable(d) == \A k \in DOMAIN d : d[k].tag # "Path"

\* save_preferences that returns before it opens the file
save_preferences_not_written(file, data) == file

\* save_preferences(data): the file it leaves where file was.  The file is
\* opened with 'w+' (truncated) before json.dump runs, so a dump that raises
\* leaves a file that does not parse.
save_preferences(file, data) ==
    IF json_serializable(data) THEN JsonFile(data) ELSE CorruptFile
save_preferences_raises(data) == ~json_serializable(data)

\* the dict of save_args_preferences with chunk_unet taken from the
\* neighbouring field
args_preferences_swapped(a) ==
    LET d0 == [k \in {"convert_unet", "chunk_unet", "controlnet_support",
                      "convert_text_encoder", "convert_vae_encoder",
                      "convert_vae_decoder", "convert_safety_checker",
                      "compute_unit", "last_output_folder", "from_safetensors"} |->
                 CASE k = "convert_unet" -> BoolV(a.convert_unet)
                   [] k = "chunk_unet" -> BoolV(a.controlnet_support)
                   [] k = "controlnet_support" -> BoolV(a.controlnet_support)
                   [] k = "convert_text_encoder" -> BoolV(a.convert_text_encoder)
                   [] k = "convert_vae_encoder" -> BoolV(a.convert_vae_encoder)
                   [] k = "convert_vae_decoder" -> BoolV(a.convert_vae_decoder)
                   [] k = "convert_safety_checker" -> BoolV(a.convert_safety_checker)
                   [] k = "compute_unit" -> StrV(a.compute_unit)
                   [] k = "last_output_folder" -> StrV(a.o)
                   [] k = "from_safetensors" -> BoolV(a.from_safetensors)]
        d1 == IF a.model_location # Empty
              THEN dict_set(d0, "last_model_location", StrV(a.model_location)) ELSE d0
        d2 == IF a.checkpoint_path # Empty
              THEN dict_set(d1, "last_checkpoint_path", StrV(a.checkpoint_path)) ELSE d1
    IN  IF a.checkpoint_path = Empty /\ a.model_location = Empty
        THEN dict_set(d2, "last_model_version", StrV(a.model_version)) ELSE d2

\* save_args_preferences: the dict it builds from the descriptor
args_preferences(a) ==
    LET d0 == [k \in {"convert_unet", "chunk_unet", "controlnet_support",
                      "convert_text_encoder", "convert_vae_encoder",
                      "convert_vae_decoder", "convert_safety_checker",
                      "compute_unit", "last_output_folder", "from_safetensors"} |->
                 CASE k = "convert_unet" -> BoolV(a.convert_unet)
                   [] k = "chunk_unet" -> BoolV(a.chunk_unet)
                   [] k = "controlnet_support" -> BoolV(a.controlnet_support)
                   [] k = "convert_text_encoder" -> BoolV(a.convert_text_encoder)
                   [] k = "convert_vae_encoder" -> BoolV(a.convert_vae_encoder)
                   [] k = "convert_vae_decoder" -> BoolV(a.convert_vae_decoder)
                   [] k = "convert_safety_checker" -> BoolV(a.convert_safety_checker)
                   [] k = "compute_unit" -> StrV(a.compute_unit)
                   [] k = "last_output_folder" -> StrV(a.o)
                   [] k = "from_safetensors" -> BoolV(a.from_safetensors)]
        d1 == IF a.model_location # Empty
              THEN dict_set(d0, "last_model_location", StrV(a.model_location)) ELSE d0
        d2 == IF a.checkpoint_path # Empty
              THEN dict_set(d1, "last_checkpoint_path", StrV(a.checkpoint_path)) ELSE d1
    IN  IF a.checkpoint_path = Empty /\ a.model_location = Empty
        THEN dict_set(d2, "last_model_version", StrV(a.model_version)) ELSE d2

\* save_args_preferences(args): the file it leaves where file was
save_args_preferences(file, a) == save_preferences(file, args_preferences(a))

\* save_last_checkpoint_path(preferences, path): the dict after the assignment
save_last_checkpoint_path(prefs, path) == dict_set(prefs, "last_checkpoint_path", StrV(path))

\* the command lines is_coremlcompiler_installed hands to check_output
XcrunVersion == <<"xcrun", "--version">>
CoremlcompilerVersion == <<"xcrun", "coremlcompiler", "version">>

\* is_coremlcompiler_installed: the check_output calls it makes, in order,
\* each with whether it returned (ok) or raised; xcrun_ok and compiler_ok
\* are what the environment answers to the two commands
check_output_calls(xcrun_ok, compiler_ok) ==
    IF ~xcrun_ok
    THEN <<[cmd |-> XcrunVersion, ok |-> FALSE]>>
    ELSE <<[cmd |-> XcrunVersion, ok |-> TRUE],
           [cmd |-> CoremlcompilerVersion, ok |-> compiler_ok]>>

\* is_coremlcompiler_installed that trusts the first query alone
is_coremlcompiler_installed_first_only(xcrun_ok, compiler_ok) == xcrun_ok

\* is_coremlcompiler_installed, its return value: the two version queries,
\* the second only after the first succeeded
is_coremlcompiler_installed(xcrun_ok, compiler_ok) ==
    IF ~xcrun_ok THEN FALSE ELSE IF ~compiler_ok THEN FALSE ELSE TRUE

\* PlaceholderEntry.get: the placeholder text reads as ''
PlaceholderEntry_get(content, placeholder) == IF content = placeholder THEN Empty ELSE content

\* PlaceholderEntry.fill_placeholder: an empty entry shows the placeholder
fill_placeholder(content, placeholder) == IF content = Empty THEN placeholder ELSE content

\* --------------------------------------------------------- job descriptor
\* the model name without the fall-back to the stored identifier
resolve_model_version_no_default(typed, stored, ckpt, model) ==
    LET v0 == strip(typed)
        v2 == IF ckpt # Empty THEN splitext_root(basename(normpath(ckpt))) ELSE v0
    IN  IF model # Empty THEN basename(normpath(model)) ELSE v2

\* the model name with a typed identifier overriding the selections
resolve_model_version_typed_first(typed, stored, ckpt, model) ==
    LET v0 == strip(typed)
        v1 == IF v0 = Empty THEN stored ELSE v0
        v2 == IF ckpt # Empty THEN splitext_root(basename(normpath(ckpt))) ELSE v1
        v3 == IF model # Empty THEN basename(normpath(model)) ELSE v2
    IN  IF v0 # Empty THEN v0 ELSE v3

\* convert_model, the model name: the typed identifier, else the stored one,
\* overridden by the checkpoint's file name without extension, overridden by
\* the model directory's name
resolve_model_version(typed, stored, ckpt, model) ==
    LET v0 == strip(typed)
        v1 == IF v0 = Empty THEN stored ELSE v0
        v2 == IF ckpt # Empty THEN splitext_root(basename(normpath(ckpt))) ELSE v1
    IN  IF model # Empty THEN basename(normpath(model)) ELSE v2

\* convert_model, the try block around int(): TRUE when int() raises
output_size_invalid(height_text, width_text) ==
    \/ strip(height_text) # Empty /\ ~int_ok(strip(height_text))
    \/ strip(width_text) # Empty /\ ~int_ok(strip(width_text))

\* output_h / output_w: None is <<>>, an int n is <<n>>
output_size(text) == IF strip(text) = Empty THEN <<>> ELSE <<int(strip(text))>>

\* the mode chosen with the neural-engine unit as the special case
attention_implementation_swapped(compute_unit) ==
    IF compute_unit = CPU_AND_NE THEN ORIGINAL ELSE SPLIT_EINSUM

\* convert_model, the attention_implementation argument of the Namespace
attention_implementation(compute_unit) ==
    IF compute_unit = CPU_AND_GPU THEN ORIGINAL ELSE SPLIT_EINSUM

\* the Namespace with resources_dir_name taken from the output folder
Namespace_resources_from_output(v, compute_unit, controlnet_text, height_text, width_text, model, ckpt, model_version, output_folder) ==
    [attention_implementation |-> attention_implementation(compute_unit),
     chunk_unet |-> v["chunk_unet_value"],
     controlnet_support |-> v["controlnet_support_value"],
     convert_safety_checker |-> v["convert_safety_checker_value"],
     convert_text_encoder |-> v["convert_text_encoder_value"],
     convert_unet |-> v["convert_unet_value"],
     convert_vae_decoder |-> v["convert_decoder_value"],
     convert_vae_encoder |-> v["convert_encoder_value"],
     controlnet_version |-> strip(controlnet_text),
     output_h |-> output_size(height_text),
     output_w |-> output_size(width_text),
     compute_unit |-> compute_unit,
     model_location |-> model,
     from_safetensors |-> v["safetensors_model_value"],
     model_version |-> model_version,
     checkpoint_path |-> ckpt,
     resources_dir_name |-> basename(normpath(output_folder)),
     o |-> output_folder]

\* the Namespace convert_model passes to torch2coreml.main (its constant
\* fields left out); v maps each IntVar to "its value is 1"
Namespace(v, compute_unit, controlnet_text, height_text, width_text, model, ckpt, model_version, output_folder) ==
    [attention_implementation |-> attention_implementation(compute_unit),
     chunk_unet |-> v["chunk_unet_value"],
     controlnet_support |-> v["controlnet_support_value"],
     convert_safety_checker |-> v["convert_safety_checker_value"],
     convert_text_encoder |-> v["convert_text_encoder_value"],
     convert_unet |-> v["convert_unet_value"],
     convert_vae_decoder |-> v["convert_decoder_value"],
     convert_vae_encoder |-> v["convert_encoder_value"],
     controlnet_version |-> strip(controlnet_text),
     output_h |-> output_size(height_text),
     output_w |-> output_size(width_text),
     compute_unit |-> compute_unit,
     model_location |-> model,
     from_safetensors |-> v["safetensors_model_value"],
     model_version |-> model_version,
     checkpoint_path |-> ckpt,
     resources_dir_name |-> model_version,
     o |-> output_folder]

IntVars ==
    {"convert_unet_value", "chunk_unet_value", "controlnet_support_value",
     "convert_text_encoder_value", "convert_encoder_value", "convert_decoder_value",
     "convert_safety_checker_value", "safetensors_model_value"}

\* the preferences key each IntVar is initialised from
PreferenceOf(var) ==
    CASE var = "convert_unet_value" -> "convert_unet"
      [] var = "chunk_unet_value" -> "chunk_unet"
      [] var = "controlnet_support_value" -> "controlnet_support"
      [] var = "convert_text_encoder_value" -> "convert_text_encoder"
      [] var = "convert_encoder_value" -> "convert_vae_encoder"
      [] var = "convert_decoder_value" -> "convert_vae_decoder"
      [] var = "convert_safety_checker_value" -> "convert_safety_checker"
      [] var = "safetensors_model_value" -> "from_safetensors"

\* no descriptor built yet
NoArgs ==
    Namespace([x \in IntVars |-> FALSE], Empty, Empty, Empty, Empty, Empty, Empty,
              Empty, Empty)

\* ---------------------------------------------------------------- widgets
\* TRUE is NORMAL for a control and "gridded" for a label, bar or button.
\* controls stands for every widget show_converting sets to the same state.

\* convert_unet_switched: the dependent checks follow the UNet check
convert_unet_switched(w, unet) ==
    [w EXCEPT !.chunk_unet_check = unet, !.controlnet_support_check = unet]

\* show_converting that never sets the controls back to NORMAL
show_converting_leaves_disabled(w, is_converting, unet) ==
    [w EXCEPT !.progress = is_converting,
              !.convert_button = ~is_converting,
              !.controls = FALSE,
              !.chunk_unet_check = FALSE,
              !.controlnet_support_check = FALSE]

\* show_converting that leaves the convert button gridded
show_converting_keeps_button(w, is_converting, unet) ==
    [w EXCEPT !.progress = is_converting,
              !.convert_button = TRUE,
              !.controls = ~is_converting,
              !.chunk_unet_check = ~is_converting /\ unet,
              !.controlnet_support_check = ~is_converting /\ unet]

\* show_converting(is_converting), up to its window.update()
show_converting(w, is_converting, unet) ==
    [w EXCEPT !.progress = is_converting,
              !.convert_button = ~is_converting,
              !.controls = ~is_converting,
              !.chunk_unet_check = ~is_converting /\ unet,
              !.controlnet_support_check = ~is_converting /\ unet]

\* ------------------------------------------------------------------ state
VARIABLES
    disk,                      \* the preferences.json file
    loaded_from,               \* the file as fetch_preferences found it at start
    preferences,               \* the module-level preferences dict
    coremlcompiler_installed,  \* the cached toolchain status
    ckpt_location,             \* module-level selections
    model_location,
    entries,                   \* content of each PlaceholderEntry
    version_placeholder,       \* version_entry's placeholder text
    values,                    \* each IntVar: "its value is 1"
    selected_compute_unit,
    widgets,                   \* widget states
    pc,                        \* "idle": mainloop; "update": convert_model inside
                               \* show_converting(True)'s window.update();
                               \* "converting": inside torch2coreml.main
    depth,                     \* convert_model activations suspended in window.update()
    args,                      \* the last descriptor built
    sub,                       \* the last submission
    event,                     \* the last handler or step that ran ("edit": a
                               \* click or typing that runs no handler of the program)
    steps,                     \* user events so far
    counts                     \* calls so far

vars ==
    <<disk, loaded_from, preferences, coremlcompiler_installed, ckpt_location,
      model_location, entries, version_placeholder, values, selected_compute_unit,
      widgets, pc, depth, args, sub, event, steps, counts>>

EntryNames == {"version_entry", "controlnet_version_entry", "width_entry", "height_entry"}

placeholder(e) ==
    CASE e = "version_entry" -> version_placeholder
      [] e = "controlnet_version_entry" -> ControlnetPlaceholder
      [] e = "width_entry" -> WidthPlaceholder
      [] e = "height_entry" -> HeightPlaceholder

\* entry.get()
get(e) == PlaceholderEntry_get(entries[e], placeholder(e))

TypedTexts(e) ==
    CASE e = "version_entry" -> VersionTexts
      [] e = "controlnet_version_entry" -> ControlnetTexts
      [] e = "width_entry" -> SizeTexts
      [] e = "height_entry" -> SizeTexts

NoSub ==
    [result |-> "none", probe_ran |-> FALSE, queries |-> <<>>, picker_opened |-> FALSE,
     message |-> "none", disk_before |-> MissingFile]

NoCounts == [show_on |-> 0, show_off |-> 0, main_calls |-> 0]

\* -------------------------------------------------------- files at start
SavedByIdentifierRun ==
    [k \in {"convert_unet", "chunk_unet", "controlnet_support", "convert_text_encoder",
            "convert_vae_encoder", "convert_vae_decoder", "convert_safety_checker",
            "compute_unit", "last_output_folder", "from_safetensors",
            "last_model_version"} |->
        CASE k \in {"convert_unet", "convert_vae_decoder", "from_safetensors"} -> BoolV(FALSE)
          [] k \in {"chunk_unet", "controlnet_support", "convert_text_encoder",
                    "convert_vae_encoder", "convert_safety_checker"} -> BoolV(TRUE)
          [] k = "compute_unit" -> StrV(CPU_AND_GPU)
          [] k = "last_output_folder" -> StrV(OldDir)
          [] k = "last_model_version" -> StrV(OldVersion)]

\* a complete document, every path a string, whose stored identifier is ''
NoVersionDoc ==
    [k \in Keys |->
        IF k = "last_model_version" THEN StrV(Empty)
        ELSE IF k \in DOMAIN SavedByIdentifierRun THEN SavedByIdentifierRun[k]
        ELSE StrV(OldDir)]

InitialFiles == {MissingFile, JsonFile(SavedByIdentifierRun), JsonFile(NoVersionDoc)}

\* ------------------------------------------------------- process start-up
\* the module-level code under __main__, up to window.mainloop()
main(file, xcrun_ok, compiler_ok) ==
    LET prefs == fetch_preferences(file)
        installed == is_coremlcompiler_installed(xcrun_ok, compiler_ok)
        unet == truthy(prefs["convert_unet"])
    IN  [preferences |-> prefs,
         coremlcompiler_installed |-> installed,
         version_placeholder |-> prefs["last_model_version"].s,
         entries |-> [e \in EntryNames |->
                        CASE e = "version_entry" ->
                               fill_placeholder(Empty, prefs["last_model_version"].s)
                          [] e = "controlnet_version_entry" ->
                               fill_placeholder(Empty, ControlnetPlaceholder)
                          [] e = "width_entry" -> fill_placeholder(Empty, WidthPlaceholder)
                          [] e = "height_entry" -> fill_placeholder(Empty, HeightPlaceholder)],
         values |-> [x \in IntVars |-> truthy(prefs[PreferenceOf(x)])],
         selected_compute_unit |-> prefs["compute_unit"].s,
         widgets |-> [controls |-> TRUE, chunk_unet_check |-> unet,
                      controlnet_support_check |-> unet, convert_button |-> TRUE,
                      progress |-> FALSE, xcode_label |-> ~installed]]

Init ==
    \E file \in InitialFiles, xcrun_ok, compiler_ok \in BOOLEAN :
        LET m == main(file, xcrun_ok, compiler_ok)
        IN  /\ disk = file
            /\ loaded_from = file
            /\ preferences = m.preferences
            /\ coremlcompiler_installed = m.coremlcompiler_installed
            /\ ckpt_location = Empty
            /\ model_location = Empty
            /\ entries = m.entries
            /\ version_placeholder = m.version_placeholder
            /\ values = m.values
            /\ selected_compute_unit = m.selected_compute_unit
            /\ widgets = m.widgets
            /\ pc = "idle"
            /\ depth = 0
            /\ args = NoArgs
            /\ sub = NoSub
            /\ event = "main"
            /\ steps = 0
            /\ counts = NoCounts

\* the window is closed and the program started again
Relaunch ==
    /\ pc = "idle"
    /\ steps < MaxSteps
    /\ \E xcrun_ok, compiler_ok \in BOOLEAN :
        LET m == main(disk, xcrun_ok, compiler_ok)
        IN  /\ loaded_from' = disk
            /\ preferences' = m.preferences
            /\ coremlcompiler_installed' = m.coremlcompiler_installed
            /\ entries' = m.entries
            /\ version_placeholder' = m.version_placeholder
            /\ values' = m.values
            /\ selected_compute_unit' = m.selected_compute_unit
            /\ widgets' = m.widgets
    /\ ckpt_location' = Empty
    /\ model_location' = Empty
    /\ args' = NoArgs
    /\ sub' = NoSub
    /\ event' = "main"
    /\ steps' = steps + 1
    /\ UNCHANGED <<disk, pc, depth, counts>>

\* ------------------------------------------------------------ user events
\* Tk runs a command callback from mainloop or from window.update(), and
\* only for a widget that is NORMAL and gridded.  An edit that leaves every
\* value as it was (the selected Radiobutton clicked again, the same text
\* typed again) is not counted as an event.
Dispatching == pc \in {"idle", "update"} /\ steps < MaxSteps

storeVars == <<disk, loaded_from, preferences, coremlcompiler_installed>>
selectionVars == <<ckpt_location, model_location>>
runVars == <<pc, depth, args, sub, counts>>

\* the user types text t into entry e and leaves the field
TypeEntry(e, t) ==
    /\ Dispatching
    /\ widgets.controls
    /\ entries' = [entries EXCEPT ![e] = fill_placeholder(t, placeholder(e))]
    /\ entries' # entries
    /\ event' = "edit"
    /\ steps' = steps + 1
    /\ UNCHANGED <<storeVars, selectionVars, runVars, version_placeholder, values,
                   selected_compute_unit, widgets>>

\* the UNet check is clicked: command=convert_unet_switched
convert_unet_check_clicked ==
    /\ Dispatching
    /\ widgets.controls
    /\ values' = [values EXCEPT !["convert_unet_value"] = ~@]
    /\ widgets' = convert_unet_switched(widgets, values'["convert_unet_value"])
    /\ event' = "edit"
    /\ steps' = steps + 1
    /\ UNCHANGED <<storeVars, selectionVars, runVars, version_placeholder, entries,
                   selected_compute_unit>>

\* the Chunk UNet check is clicked
chunk_unet_check_clicked ==
    /\ Dispatching
    /\ widgets.chunk_unet_check
    /\ values' = [values EXCEPT !["chunk_unet_value"] = ~@]
    /\ event' = "edit"
    /\ steps' = steps + 1
    /\ UNCHANGED <<storeVars, selectionVars, runVars, version_placeholder, entries,
                   selected_compute_unit, widgets>>

\* the ControlNet support check is clicked
controlnet_support_check_clicked ==
    /\ Dispatching
    /\ widgets.controlnet_support_check
    /\ values' = [values EXCEPT !["controlnet_support_value"] = ~@]
    /\ event' = "edit"
    /\ steps' = steps + 1
    /\ UNCHANGED <<storeVars, selectionVars, runVars, version_placeholder, entries,
                   selected_compute_unit, widgets>>

\* one of the checks without a command is clicked
check_clicked(x) ==
    /\ Dispatching
    /\ widgets.controls
    /\ values' = [values EXCEPT ![x] = ~@]
    /\ event' = "edit"
    /\ steps' = steps + 1
    /\ UNCHANGED <<storeVars, selectionVars, runVars, version_placeholder, entries,
                   selected_compute_unit, widgets>>

ModuleVars ==
    {"convert_unet_value", "convert_text_encoder_value", "convert_encoder_value",
     "convert_decoder_value", "convert_safety_checker_value"}

select_none_action ==
    /\ Dispatching
    /\ widgets.controls
    /\ values' = [x \in IntVars |-> IF x \in ModuleVars THEN FALSE ELSE values[x]]
    /\ widgets' = convert_unet_switched(widgets, FALSE)
    /\ values' # values
    /\ event' = "edit"
    /\ steps' = steps + 1
    /\ UNCHANGED <<storeVars, selectionVars, runVars, version_placeholder, entries,
                   selected_compute_unit>>

select_all_action ==
    /\ Dispatching
    /\ widgets.controls
    /\ values' = [x \in IntVars |-> IF x \in ModuleVars THEN TRUE ELSE values[x]]
    /\ widgets' = convert_unet_switched(widgets, TRUE)
    /\ values' # values
    /\ event' = "edit"
    /\ steps' = steps + 1
    /\ UNCHANGED <<storeVars, selectionVars, runVars, version_placeholder, entries,
                   selected_compute_unit>>

\* a compute unit Radiobutton is clicked
compute_unit_clicked(u) ==
    /\ Dispatching
    /\ widgets.controls
    /\ selected_compute_unit' = u
    /\ u # selected_compute_unit
    /\ event' = "edit"
    /\ steps' = steps + 1
    /\ UNCHANGED <<storeVars, selectionVars, runVars, version_placeholder, entries,
                   values, widgets>>

\* select_local_model; choice is what askdirectory returns.  When
\* save_preferences raises, the statements after it do not run.
select_local_model(choice) ==
    /\ Dispatching
    /\ widgets.controls
    /\ model_location' = choice
    /\ IF choice # Empty
       THEN LET data == save_last_checkpoint_path(preferences, choice)
            IN  /\ preferences' = data
                /\ disk' = save_preferences(disk, data)
                /\ IF save_preferences_raises(data)
                   THEN UNCHANGED <<ckpt_location, entries>>
                   ELSE /\ ckpt_location' = Empty
                        /\ entries' = [entries EXCEPT !["version_entry"] = Empty]
       ELSE UNCHANGED <<preferences, disk, ckpt_location, entries>>
    /\ event' = "select_local_model"
    /\ steps' = steps + 1
    /\ UNCHANGED <<loaded_from, coremlcompiler_installed, runVars, version_placeholder,
                   values, selected_compute_unit, widgets>>

\* convert_ckpt that stores the chosen file with save_last_checkpoint_path
convert_ckpt_saving(choice) ==
    /\ Dispatching
    /\ widgets.controls
    /\ ckpt_location' = choice
    /\ IF choice # Empty
       THEN /\ preferences' = save_last_checkpoint_path(preferences, choice)
            /\ disk' = save_preferences(disk, preferences')
            /\ model_location' = Empty
            /\ entries' = [entries EXCEPT !["version_entry"] = Empty]
       ELSE UNCHANGED <<preferences, disk, model_location, entries>>
    /\ event' = "convert_ckpt"
    /\ steps' = steps + 1
    /\ UNCHANGED <<loaded_from, coremlcompiler_installed, runVars, version_placeholder,
                   values, selected_compute_unit, widgets>>

\* convert_ckpt; choice is what askopenfilename returns
convert_ckpt(choice) ==
    /\ Dispatching
    /\ widgets.controls
    /\ ckpt_location' = choice
    /\ IF choice # Empty
       THEN /\ model_location' = Empty
            /\ entries' = [entries EXCEPT !["version_entry"] = Empty]
       ELSE UNCHANGED <<model_location, entries>>
    /\ event' = "convert_ckpt"
    /\ steps' = steps + 1
    /\ UNCHANGED <<storeVars, runVars, version_placeholder, values,
                   selected_compute_unit, widgets>>

\* ------------------------------------------------------------ convert_model
\* the convert button is clicked
Submitting == Dispatching /\ widgets.convert_button

\* the model name convert_model resolves in the current state
model_version_now ==
    resolve_model_version(get("version_entry"), preferences["last_model_version"].s,
                          ckpt_location, model_location)

\* that check without the test of the cached status
recheck_always(xcrun_ok, compiler_ok) == is_coremlcompiler_installed(xcrun_ok, compiler_ok)

\* the cached status after the check at the top of convert_model: probed
\* again only when it was false
recheck(xcrun_ok, compiler_ok) ==
    IF ~coremlcompiler_installed
    THEN is_coremlcompiler_installed(xcrun_ok, compiler_ok)
    ELSE coremlcompiler_installed

\* the check_output calls that check makes
recheck_queries(xcrun_ok, compiler_ok) ==
    IF ~coremlcompiler_installed THEN check_output_calls(xcrun_ok, compiler_ok) ELSE <<>>

\* that check without the return after the error box
returns_blocked_missing(installed_now) == FALSE

\* the else branch of that check: error box and return
returns_blocked(installed_now) == ~installed_now

\* xcode_label.grid_remove() when the probe run now found the toolchain
after_recheck(w, installed_now) ==
    IF ~coremlcompiler_installed /\ installed_now THEN [w EXCEPT !.xcode_label = FALSE] ELSE w

\* what every path through convert_model records
submitted(result, message, picker_opened, queries) ==
    /\ sub' = [result |-> result, probe_ran |-> ~coremlcompiler_installed,
               queries |-> queries, picker_opened |-> picker_opened,
               message |-> message, disk_before |-> disk]
    /\ event' = "convert_model"
    /\ steps' = steps + 1

\* the toolchain is still absent after the probe: error box, return
convert_model_blocked ==
    /\ Submitting
    /\ \E xcrun_ok, compiler_ok \in BOOLEAN :
        /\ returns_blocked(recheck(xcrun_ok, compiler_ok))
        /\ coremlcompiler_installed' = recheck(xcrun_ok, compiler_ok)
        /\ submitted("blocked", "toolchain", FALSE, recheck_queries(xcrun_ok, compiler_ok))
    /\ UNCHANGED <<disk, loaded_from, preferences, selectionVars, pc, depth, args,
                   counts, version_placeholder, entries, values, selected_compute_unit,
                   widgets>>

\* no model name: error box, return
convert_model_no_model ==
    /\ Submitting
    /\ \E xcrun_ok, compiler_ok \in BOOLEAN :
        /\ ~returns_blocked(recheck(xcrun_ok, compiler_ok))
        /\ coremlcompiler_installed' = recheck(xcrun_ok, compiler_ok)
        /\ widgets' = after_recheck(widgets, recheck(xcrun_ok, compiler_ok))
        /\ submitted("no_model", "no_model", FALSE, recheck_queries(xcrun_ok, compiler_ok))
    /\ model_version_now = Empty
    /\ UNCHANGED <<disk, loaded_from, preferences, selectionVars, pc, depth, args,
                   counts, version_placeholder, entries, values, selected_compute_unit>>

\* the int() error path that also drops the selected model source
convert_model_invalid_size_resets ==
    /\ Submitting
    /\ \E xcrun_ok, compiler_ok \in BOOLEAN :
        /\ ~returns_blocked(recheck(xcrun_ok, compiler_ok))
        /\ coremlcompiler_installed' = recheck(xcrun_ok, compiler_ok)
        /\ widgets' = after_recheck(widgets, recheck(xcrun_ok, compiler_ok))
        /\ submitted("invalid_size", "invalid_size", FALSE,
                     recheck_queries(xcrun_ok, compiler_ok))
    /\ model_version_now # Empty
    /\ output_size_invalid(get("height_entry"), get("width_entry"))
    /\ ckpt_location' = Empty
    /\ model_location' = Empty
    /\ UNCHANGED <<disk, loaded_from, preferences, pc, depth, args,
                   counts, version_placeholder, entries, values, selected_compute_unit>>

\* int() raised on the height or the width: error box, return
convert_model_invalid_size ==
    /\ Submitting
    /\ \E xcrun_ok, compiler_ok \in BOOLEAN :
        /\ ~returns_blocked(recheck(xcrun_ok, compiler_ok))
        /\ coremlcompiler_installed' = recheck(xcrun_ok, compiler_ok)
        /\ widgets' = after_recheck(widgets, recheck(xcrun_ok, compiler_ok))
        /\ submitted("invalid_size", "invalid_size", FALSE,
                     recheck_queries(xcrun_ok, compiler_ok))
    /\ model_version_now # Empty
    /\ output_size_invalid(get("height_entry"), get("width_entry"))
    /\ UNCHANGED <<disk, loaded_from, preferences, selectionVars, pc, depth, args,
                   counts, version_placeholder, entries, values, selected_compute_unit>>

\* the destination picker returned nothing: return, no message
convert_model_no_folder ==
    /\ Submitting
    /\ \E xcrun_ok, compiler_ok \in BOOLEAN :
        /\ ~returns_blocked(recheck(xcrun_ok, compiler_ok))
        /\ coremlcompiler_installed' = recheck(xcrun_ok, compiler_ok)
        /\ widgets' = after_recheck(widgets, recheck(xcrun_ok, compiler_ok))
        /\ submitted("no_folder", "none", TRUE, recheck_queries(xcrun_ok, compiler_ok))
    /\ model_version_now # Empty
    /\ ~output_size_invalid(get("height_entry"), get("width_entry"))
    /\ \E output_folder \in OutputChoices : strip(output_folder) = Empty
    /\ UNCHANGED <<disk, loaded_from, preferences, selectionVars, pc, depth, args,
                   counts, version_placeholder, entries, values, selected_compute_unit>>

\* the descriptor is built, save_args_preferences and show_converting(True)
\* run; control is now inside show_converting's window.update().  When
\* save_preferences raises, show_converting(True) does not run.
convert_model_start ==
    /\ Submitting
    /\ model_version_now # Empty
    /\ ~output_size_invalid(get("height_entry"), get("width_entry"))
    /\ \E output_folder \in OutputChoices :
        /\ strip(output_folder) # Empty
        /\ args' = Namespace(values, selected_compute_unit,
                             get("controlnet_version_entry"), get("height_entry"),
                             get("width_entry"), model_location, ckpt_location,
                             model_version_now, output_folder)
    /\ disk' = save_args_preferences(disk, args')
    /\ \E xcrun_ok, compiler_ok \in BOOLEAN :
        /\ ~returns_blocked(recheck(xcrun_ok, compiler_ok))
        /\ coremlcompiler_installed' = recheck(xcrun_ok, compiler_ok)
        /\ IF save_preferences_raises(args_preferences(args'))
           THEN /\ widgets' = after_recheck(widgets, recheck(xcrun_ok, compiler_ok))
                /\ submitted("save_failed", "none", TRUE,
                             recheck_queries(xcrun_ok, compiler_ok))
                /\ UNCHANGED <<pc, depth, counts>>
           ELSE /\ widgets' = show_converting(
                                  after_recheck(widgets, recheck(xcrun_ok, compiler_ok)),
                                  TRUE, values["convert_unet_value"])
                /\ submitted("running", "none", TRUE,
                             recheck_queries(xcrun_ok, compiler_ok))
                /\ pc' = "update"
                /\ depth' = IF pc = "update" THEN depth + 1 ELSE depth
                /\ counts' = [counts EXCEPT !.show_on = @ + 1]
    /\ UNCHANGED <<loaded_from, preferences, selectionVars, version_placeholder,
                   entries, values, selected_compute_unit>>

\* window.update() returns and torch2coreml.main(args) is called
call_main ==
    /\ pc = "update"
    /\ pc' = "converting"
    /\ counts' = [counts EXCEPT !.main_calls = @ + 1]
    /\ event' = "call_main"
    /\ UNCHANGED <<storeVars, selectionVars, depth, args, sub, steps,
                   version_placeholder, entries, values, selected_compute_unit, widgets>>

\* convert_model returns to whoever dispatched the click
handler_returns ==
    /\ pc' = IF depth > 0 THEN "update" ELSE "idle"
    /\ depth' = IF depth > 0 THEN depth - 1 ELSE 0

\* torch2coreml.main returned: info box, then the finally clause
main_returns ==
    /\ pc = "converting"
    /\ sub' = [sub EXCEPT !.result = "succeeded", !.message = "success"]
    /\ widgets' = show_converting(widgets, FALSE, values["convert_unet_value"])
    /\ counts' = [counts EXCEPT !.show_off = @ + 1]
    /\ handler_returns
    /\ event' = "main_returns"
    /\ UNCHANGED <<storeVars, selectionVars, args, steps, version_placeholder, entries,
                   values, selected_compute_unit>>

\* an except clause that goes back to call torch2coreml.main again
main_raises_retrying ==
    /\ pc = "converting"
    /\ sub' = [sub EXCEPT !.result = "failed", !.message = "conversion_error"]
    /\ pc' = "update"
    /\ event' = "main_raises"
    /\ UNCHANGED <<storeVars, selectionVars, args, steps, version_placeholder, entries,
                   values, selected_compute_unit, widgets, counts, depth>>

\* torch2coreml.main raised: error box, then the finally clause
main_raises ==
    /\ pc = "converting"
    /\ sub' = [sub EXCEPT !.result = "failed", !.message = "conversion_error"]
    /\ widgets' = show_converting(widgets, FALSE, values["convert_unet_value"])
    /\ counts' = [counts EXCEPT !.show_off = @ + 1]
    /\ handler_returns
    /\ event' = "main_raises"
    /\ UNCHANGED <<storeVars, selectionVars, args, steps, version_placeholder, entries,
                   values, selected_compute_unit>>

\* ---------------------------------------------------------- specification
Next ==
    \/ \E e \in EntryNames : \E t \in TypedTexts(e) : TypeEntry(e, t)
    \/ convert_unet_check_clicked
    \/ chunk_unet_check_clicked
    \/ controlnet_support_check_clicked
    \/ \E x \in IntVars \ {"convert_unet_value", "chunk_unet_value",
                           "controlnet_support_value"} : check_clicked(x)
    \/ select_none_action
    \/ select_all_action
    \/ \E u \in ComputeUnits : compute_unit_clicked(u)
    \/ \E choice \in ModelDirChoices : select_local_model(choice)
    \/ \E choice \in CkptChoices : convert_ckpt(choice)
    \/ convert_model_blocked
    \/ convert_model_no_model
    \/ convert_model_invalid_size
    \/ convert_model_no_folder
    \/ convert_model_start
    \/ call_main
    \/ main_returns
    \/ main_raises
    \/ Relaunch

Spec == Init /\ [][Next]_vars

\* torch2coreml.main is a blocking call that ends by returning or raising
FairSpec == Spec /\ WF_vars(call_main) /\ WF_vars(main_returns \/ main_raises)

\* ---------------------------------------------- specification of the load
\* every preferences file over the recognized keys: absent, unparseable, or
\* a JSON object holding any subset of the keys, each with a value that is
\* not the key's default
StoredDoc ==
    [k \in Keys |->
        CASE k \in {"chunk_unet", "convert_safety_checker", "from_safetensors"} -> BoolV(TRUE)
          [] k \in {"convert_unet", "controlnet_support", "convert_text_encoder",
                    "convert_vae_encoder", "convert_vae_decoder"} -> BoolV(FALSE)
          [] k = "compute_unit" -> StrV(ALL)
          [] k = "last_model_version" -> StrV(OldVersion)
          [] k \in PathKeys -> StrV(OldDir)]

AllFiles ==
    {MissingFile, CorruptFile} \cup {JsonFile([k \in S |-> StoredDoc[k]]) : S \in SUBSET Keys}

LoadInit ==
    \E file \in AllFiles, xcrun_ok, compiler_ok \in BOOLEAN :
        LET m == main(file, xcrun_ok, compiler_ok)
        IN  /\ disk = file
            /\ loaded_from = file
            /\ preferences = m.preferences
            /\ coremlcompiler_installed = m.coremlcompiler_installed
            /\ ckpt_location = Empty
            /\ model_location = Empty
            /\ entries = m.entries
            /\ version_placeholder = m.version_placeholder
            /\ values = m.values
            /\ selected_compute_unit = m.selected_compute_unit
            /\ widgets = m.widgets
            /\ pc = "idle"
            /\ depth = 0
            /\ args = NoArgs
            /\ sub = NoSub
            /\ event = "main"
            /\ steps = 0
            /\ counts = NoCounts

LoadNext == Relaunch

LoadSpec == LoadInit /\ [][LoadNext]_vars

C2_BusyClearedOnEveryExit ==
    /\ [](pc = "converting" =>
            /\ ~widgets.controls
            /\ ~widgets.chunk_unet_check
            /\ ~widgets.controlnet_support_check
            /\ ~widgets.convert_button
            /\ widgets.progress)
    /\ [](/\ counts.show_off <= counts.show_on
          /\ counts.show_on <= counts.show_off + 1
          /\ (pc = "idle" => counts.show_off = counts.show_on))
    /\ ((pc # "idle") ~>
            (/\ pc = "idle"
             /\ widgets.controls
             /\ widgets.convert_button
             /\ ~widgets.progress))

C2_Witness ==
    /\ event = "main_raises"
    /\ pc = "idle"
    /\ widgets.controls
    /\ ~widgets.progress
    /\ counts.show_on = 1
    /\ counts.show_off = 1

\* the defaults of lines 78-103
HardCodedDefault(k) ==
    CASE k = "last_model_version" -> StrV(DefaultModelVersion)
      [] k \in {"convert_unet", "controlnet_support", "convert_text_encoder",
                "convert_vae_encoder", "convert_vae_decoder"} -> BoolV(TRUE)
      [] k \in {"chunk_unet", "convert_safety_checker", "from_safetensors"} -> BoolV(FALSE)
      [] k = "compute_unit" -> StrV(CPU_AND_NE)
      [] k \in PathKeys -> PathV(HomeDir)

\* C3: the document fetch_preferences returned at start holds every
\* recognized key, with the file's value for a key the file holds and the
\* hard-coded default for a key it lacks (a missing or unparseable file
\* holds none).
C3_LoadBackfills ==
    event = "main" =>
        \A k \in Keys :
            /\ k \in DOMAIN preferences
            /\ IF loaded_from.kind = "json" /\ k \in DOMAIN loaded_from.doc
               THEN preferences[k] = loaded_from.doc[k]
               ELSE preferences[k] = HardCodedDefault(k)

C3_Witness ==
    /\ event = "main"
    /\ steps = 1
    /\ loaded_from.kind = "json"
    /\ DOMAIN loaded_from.doc = {"chunk_unet", "compute_unit", "last_output_folder"}

\* C4 as stated: after a handler wrote the preferences file and the write
\* completed, the file holds a document with every recognized key.
C4_WritesAreComplete ==
    (/\ disk.kind = "json"
     /\ \/ event = "convert_model" /\ sub.result = "running"
        \/ event = "select_local_model" /\ model_location # Empty)
        => Keys \subseteq DOMAIN disk.doc

C6_SavedEqualsSubmitted ==
    event = "main_returns" =>
        /\ disk.kind = "json"
        /\ {"convert_unet", "chunk_unet", "controlnet_support", "convert_text_encoder",
            "convert_vae_encoder", "convert_vae_decoder", "convert_safety_checker",
            "from_safetensors", "compute_unit", "last_output_folder"}
               \subseteq DOMAIN disk.doc
        /\ disk.doc["convert_unet"] = BoolV(args.convert_unet)
        /\ disk.doc["chunk_unet"] = BoolV(args.chunk_unet)
        /\ disk.doc["controlnet_support"] = BoolV(args.controlnet_support)
        /\ disk.doc["convert_text_encoder"] = BoolV(args.convert_text_encoder)
        /\ disk.doc["convert_vae_encoder"] = BoolV(args.convert_vae_encoder)
        /\ disk.doc["convert_vae_decoder"] = BoolV(args.convert_vae_decoder)
        /\ disk.doc["convert_safety_checker"] = BoolV(args.convert_safety_checker)
        /\ disk.doc["from_safetensors"] = BoolV(args.from_safetensors)
        /\ disk.doc["compute_unit"] = StrV(args.compute_unit)
        /\ disk.doc["last_output_folder"] = StrV(args.o)
        /\ args.model_location # Empty =>
              /\ "last_model_location" \in DOMAIN disk.doc
              /\ disk.doc["last_model_location"] = StrV(args.model_location)
        /\ args.checkpoint_path # Empty =>
              /\ "last_checkpoint_path" \in DOMAIN disk.doc
              /\ disk.doc["last_checkpoint_path"] = StrV(args.checkpoint_path)
        /\ args.model_location = Empty /\ args.checkpoint_path = Empty =>
              /\ "last_model_version" \in DOMAIN disk.doc
              /\ disk.doc["last_model_version"] = StrV(args.model_version)
        /\ args.convert_unet = values["convert_unet_value"]
        /\ args.chunk_unet = values["chunk_unet_value"]
        /\ args.controlnet_support = values["controlnet_support_value"]
        /\ args.compute_unit = selected_compute_unit

C6_Witness ==
    /\ event = "main_returns"
    /\ disk # sub.disk_before
    /\ args.chunk_unet # args.controlnet_support
    /\ args.checkpoint_path # Empty

\* the inputs of the submission that just ended (convert_model changes none)
TypedIdentifier == strip(get("version_entry"))
NoModelSource ==
    /\ TypedIdentifier = Empty
    /\ model_location = Empty
    /\ ckpt_location = Empty
    /\ preferences["last_model_version"].s = Empty
SizeNotParseable ==
    \E e \in {"width_entry", "height_entry"} :
        strip(get(e)) # Empty /\ ~int_ok(strip(get(e)))
ValidationErrorReported == sub.message \in {"no_model", "invalid_size"}
ToolchainPresent == event = "convert_model" /\ sub.result # "blocked"

\* C7 as stated: with the toolchain present, a validation error is reported
\* exactly when no model source is resolvable, or the destination directory
\* is absent, or a size field is not parseable; otherwise the descriptor is
\* built and the conversion started.
C7_ErrorIffInvalid ==
    ToolchainPresent =>
        /\ ValidationErrorReported <=>
              (NoModelSource \/ SizeNotParseable \/ sub.result = "no_folder")
        /\ ~ValidationErrorReported => sub.result = "running"

\* the directory chosen as the model has an empty base name ("/")
ModelDirHasNoName ==
    model_location # Empty /\ \A i \in 1..Len(model_location) : model_location[i] = "/"

\* C7, amended: with the toolchain present, a validation error is reported
\* exactly when the model name is empty (no model source, or a model
\* directory without a base name such as "/") or a size field is non-empty
\* and not parseable; a cancelled destination picker ends the submission
\* with no message and no converter call; for every other input the
\* descriptor is built and the conversion started.
C7_ErrorIffNoNameOrBadSize ==
    ToolchainPresent =>
        /\ ValidationErrorReported <=>
              (NoModelSource \/ ModelDirHasNoName \/ SizeNotParseable)
        /\ ValidationErrorReported => ~sub.picker_opened /\ pc = "idle"
        /\ ~ValidationErrorReported =>
              /\ sub.picker_opened
              /\ sub.result \in {"no_folder", "running"}
              /\ sub.result = "no_folder" => sub.message = "none" /\ pc = "idle"
              /\ sub.result = "running" => pc = "update" /\ args.o # Empty

C7_Witness ==
    /\ event = "convert_model"
    /\ sub.result = "no_folder"
    /\ sub.message = "none"
    /\ ~NoModelSource
    /\ ~SizeNotParseable

\* C8 as stated: a descriptor passed to torch2coreml.main with convert_unet
\* false has chunk_unet false and controlnet_support false.
C8_DependentFlagsGated ==
    event = "call_main" =>
        (~args.convert_unet => ~args.chunk_unet /\ ~args.controlnet_support)

\* convert_model activations that have run show_converting(True) and not
\* yet show_converting(False)
Running == depth + (IF pc \in {"update", "converting"} THEN 1 ELSE 0)

\* C9: at most one convert_model activation is between show_converting(True)
\* and show_converting(False), and convert_model starts only from the idle
\* state with busy signalling off.
C9_OneConversionAtATime ==
    /\ [](Running <= 1 /\ counts.main_calls <= counts.show_off + 1)
    /\ [][event' = "convert_model" /\ steps' # steps
             => pc = "idle" /\ ~widgets.progress /\ Running = 0]_vars

C9_Witness ==
    /\ pc = "update"
    /\ steps < MaxSteps
    /\ counts.show_off = 1
    /\ Running = 1

\* C10: a submission that starts with the cached status false and leaves it
\* false shows the toolchain error and changes nothing else: no picker, no
\* descriptor, no write of the preferences, no busy signalling, no call.
C10_BlockedRunsNothing ==
    [][(/\ event' = "convert_model"
        /\ steps' # steps
        /\ ~coremlcompiler_installed
        /\ ~coremlcompiler_installed')
          => /\ sub'.message = "toolchain"
             /\ sub'.probe_ran
             /\ ~sub'.picker_opened
             /\ pc = "idle"
             /\ pc' = "idle"
             /\ UNCHANGED <<disk, preferences, args, counts, widgets, ckpt_location,
                            model_location, entries, values>>]_vars

C10_Witness ==
    /\ event = "convert_model"
    /\ sub.result = "blocked"
    /\ sub.probe_ran
    /\ ~coremlcompiler_installed
    /\ pc = "idle"

\* C11 as stated: at most one of ckpt_location and model_location is
\* non-empty after any sequence of selections, and a descriptor passed to
\* torch2coreml.main has at most one of checkpoint_path and model_location.
C11_AtMostOneSelection ==
    /\ ~(ckpt_location # Empty /\ model_location # Empty)
    /\ event = "call_main" =>
          ~(args.checkpoint_path # Empty /\ args.model_location # Empty)

\* the name of the highest-priority non-empty input in the order checkpoint
\* file, model directory, typed identifier, stored identifier
HighestPriorityName ==
    IF ckpt_location # Empty THEN splitext_root(basename(normpath(ckpt_location)))
    ELSE IF model_location # Empty THEN basename(normpath(model_location))
    ELSE IF strip(get("version_entry")) # Empty THEN strip(get("version_entry"))
    ELSE preferences["last_model_version"].s

\* C12 as stated: the model name of the descriptor a submission builds is
\* taken from the highest-priority non-empty input, in the order checkpoint
\* file > model directory > typed identifier > stored identifier.
C12_CheckpointFirst ==
    event = "convert_model" /\ sub.result = "running" =>
        args.model_version = HighestPriorityName

\* the text fields of the descriptor
TextFields ==
    {"model_version", "resources_dir_name", "model_location", "checkpoint_path",
     "controlnet_version", "o", "compute_unit", "attention_implementation"}

\* C13: a submission made with a model directory selected and an identifier
\* typed in the version entry builds a descriptor whose model_location is
\* the directory and whose model_version is the directory's base name, and
\* no field of the descriptor holds the typed identifier.
C13_DirectoryOverridesTyped ==
    (/\ event = "convert_model"
     /\ sub.result = "running"
     /\ model_location # Empty
     /\ TypedIdentifier # Empty)
        => /\ args.model_location = model_location
           /\ args.model_version = basename(normpath(model_location))
           /\ \A f \in TextFields :
                 args[f] # TypedIdentifier /\ args[f] # get("version_entry")

\* the directory was selected with a save that succeeded, which emptied the
\* version entry; the identifier was typed afterwards
C13_Witness ==
    /\ event = "convert_model"
    /\ sub.result = "running"
    /\ loaded_from = JsonFile(NoVersionDoc)
    /\ preferences["last_checkpoint_path"] = StrV(ModelDir)
    /\ model_location = ModelDir
    /\ ckpt_location = Empty
    /\ TypedIdentifier = strip(TypedVersion)
    /\ args.model_version = <<"d">>

\* C14: in a descriptor passed to torch2coreml.main, resources_dir_name is
\* the model name, and the model name is the base name of the model
\* directory, else the checkpoint's file name without its extension
\* ("/a/m.ckpt" gives "m"; extension as os.path.splitext defines it), else
\* the identifier (typed and stripped, else the stored one).
C14_ResourcesNameIsModelName ==
    event = "call_main" =>
        /\ args.resources_dir_name = args.model_version
        /\ args.model_version # Empty
        /\ args.model_location # Empty =>
              args.model_version = basename(normpath(args.model_location))
        /\ args.model_location = Empty /\ args.checkpoint_path # Empty =>
              args.model_version = splitext_root(basename(normpath(args.checkpoint_path)))
        /\ args.model_location = Empty /\ args.checkpoint_path = CkptFile =>
              args.resources_dir_name = <<"m">>
        /\ args.model_location = Empty /\ args.checkpoint_path = Empty =>
              args.model_version = IF TypedIdentifier # Empty THEN TypedIdentifier
                                   ELSE preferences["last_model_version"].s

C14_Witness ==
    /\ event = "call_main"
    /\ args.checkpoint_path = CkptFile
    /\ args.model_location = Empty
    /\ TypedIdentifier # Empty
    /\ args.resources_dir_name = <<"m">>

\* a submission has just built a descriptor and started the conversion
DescriptorBuilt == event = "convert_model" /\ sub.result = "running"

\* C15: the descriptor's attention_implementation is ORIGINAL when its
\* compute unit (the selected one) is CPU_AND_GPU and SPLIT_EINSUM when it is
\* CPU_AND_NE or ALL, and two consecutive descriptors with the same compute
\* unit have the same attention_implementation.
C15_AttentionFromComputeUnit ==
    /\ [](DescriptorBuilt =>
            /\ args.compute_unit = selected_compute_unit
            /\ args.compute_unit \in ComputeUnits
            /\ args.compute_unit = CPU_AND_GPU => args.attention_implementation = ORIGINAL
            /\ args.compute_unit \in {CPU_AND_NE, ALL} =>
                  args.attention_implementation = SPLIT_EINSUM)
    /\ [][DescriptorBuilt' /\ args # NoArgs /\ args'.compute_unit = args.compute_unit
             => args'.attention_implementation = args.attention_implementation]_vars

\* the second descriptor of a process, for CPU_AND_GPU, with a check
\* changed since start-up
C15_Witness ==
    /\ DescriptorBuilt
    /\ counts.show_on = 2
    /\ loaded_from = JsonFile(SavedByIdentifierRun)
    /\ ~args.convert_text_encoder
    /\ args.compute_unit = CPU_AND_GPU
    /\ args.attention_implementation = ORIGINAL

\* the step is a run of convert_model
SubmissionStep == event' = "convert_model" /\ steps' # steps

\* C16: a submission calls is_coremlcompiler_installed exactly when the
\* cached status is false, and then once (one general query, at most one
\* compiler query); once the cached status is true, no submission probes
\* and nothing but a new process start sets it back to false.
C16_ProbeOnlyWhenAbsent ==
    /\ [][SubmissionStep =>
             /\ sub'.queries # <<>> <=> ~coremlcompiler_installed
             /\ Len(sub'.queries) <= 2
             /\ \A i \in 1..Len(sub'.queries) :
                   sub'.queries[i].cmd = XcrunVersion <=> i = 1]_vars
    /\ [][coremlcompiler_installed /\ ~(event' = "main" /\ steps' # steps)
             => coremlcompiler_installed']_vars

\* a submission that found the toolchain present by the re-probe
C16_Witness ==
    /\ event = "convert_model"
    /\ Len(sub.queries) = 2
    /\ coremlcompiler_installed
    /\ ~widgets.xcode_label
    /\ sub.result = "running"

\* C17: a submission that passes the toolchain check and finds no model
\* name or a size that int() rejects, or whose destination picker returns
\* nothing, ends in the idle state with no call of torch2coreml.main and no
\* show_converting, and leaves the preferences file, the in-memory
\* preferences, ckpt_location, model_location and the inputs as they were.
C17_EarlyExitChangesNothing ==
    [][(/\ SubmissionStep
        /\ sub'.result # "blocked"
        /\ \/ model_version_now = Empty
           \/ SizeNotParseable
           \/ sub'.result = "no_folder")
          => /\ sub'.result \in {"no_model", "invalid_size", "no_folder"}
             /\ sub'.result = "no_folder" <=> sub'.picker_opened
             /\ pc = "idle"
             /\ pc' = "idle"
             /\ counts' = counts
             /\ ~widgets'.progress
             /\ widgets'.convert_button
             /\ widgets'.controls
             /\ UNCHANGED <<disk, preferences, ckpt_location, model_location, args,
                            entries, values, selected_compute_unit>>]_vars

\* a size error reported with a model directory selected
C17_Witness ==
    /\ event = "convert_model"
    /\ sub.result = "invalid_size"
    /\ model_location = ModelDir
    /\ SizeNotParseable
    /\ pc = "idle"
    /\ counts = NoCounts

\* C18: every convert_model activation that ran show_converting(True)
\* calls torch2coreml.main once: it leaves window.update() only into the
\* call, and the calls made so far are as many as the activations past
\* window.update(); when the call raises, the error is shown and the
\* handler ends, without a further call.
C18_OneCallPerRun ==
    /\ [](counts.main_calls + depth + (IF pc = "update" THEN 1 ELSE 0) = counts.show_on)
    /\ [][pc = "update" /\ pc' # "update"
             => pc' = "converting" /\ counts'.main_calls = counts.main_calls + 1]_vars
    /\ [][event' = "main_raises" /\ pc = "converting"
             => /\ sub'.message = "conversion_error"
                /\ pc' = "idle"
                /\ ~widgets'.progress
                /\ counts'.main_calls = counts.main_calls]_vars

\* the second conversion of a process has just failed
C18_Witness ==
    /\ event = "main_raises"
    /\ sub.message = "conversion_error"
    /\ pc = "idle"
    /\ counts.show_on = 2
    /\ counts.main_calls = 2

\* C19 as stated: in a descriptor passed to torch2coreml.main, output_w and
\* output_h are both None or both integers greater than zero.
C19_SizeAbsentOrPositivePair ==
    event = "call_main" =>
        \/ args.output_w = <<>> /\ args.output_h = <<>>
        \/ /\ args.output_w # <<>>
           /\ args.output_h # <<>>
           /\ args.output_w[1] > 0
           /\ args.output_h[1] > 0

\* C20: a run of is_coremlcompiler_installed makes the general query first
\* and the compiler query only after the general one succeeded; it returns
\* true exactly when both were made and both succeeded, false with the
\* general query alone when that one failed; and a run that returns false
\* leaves every variable of the program as it was.
C20_ProbeBothQueriesInOrder ==
    /\ []((event = "convert_model" /\ sub.queries # <<>>) =>
            /\ sub.queries[1].cmd = XcrunVersion
            /\ Len(sub.queries) \in {1, 2}
            /\ Len(sub.queries) = 2 <=> sub.queries[1].ok
            /\ Len(sub.queries) = 2 => sub.queries[2].cmd = CoremlcompilerVersion
            /\ ~sub.queries[1].ok => ~coremlcompiler_installed
            /\ coremlcompiler_installed <=>
                  \A i \in 1..2 : i <= Len(sub.queries) /\ sub.queries[i].ok)
    /\ [][SubmissionStep /\ sub'.queries # <<>> /\ ~coremlcompiler_installed'
             => UNCHANGED <<disk, loaded_from, preferences, coremlcompiler_installed,
                            ckpt_location, model_location, entries, version_placeholder,
                            values, selected_compute_unit, widgets, pc, depth, args,
                            counts>>]_vars

\* the general query failed and the compiler query was not made
C20_Witness ==
    /\ event = "convert_model"
    /\ sub.queries = <<[cmd |-> XcrunVersion, ok |-> FALSE]>>
    /\ ~coremlcompiler_installed

\* C21 as stated: saving a document that fetch_preferences returned (here
\* through save_last_checkpoint_path, which select_local_model calls on the
\* loaded document) completes, and a following fetch_preferences returns
\* the same value for every recognized key.
C21_SaveLoadRoundTrip ==
    event = "select_local_model" /\ model_location # Empty =>
        /\ disk.kind = "json"
        /\ \A k \in Keys : fetch_preferences(disk)[k] = preferences[k]

\* C22 as stated: when save_preferences fails on a file that holds a
\* document, the file still holds that document and the next
\* fetch_preferences returns its values.
C22_SaveIsAtomic ==
    [][(/\ event' = "select_local_model"
        /\ steps' # steps
        /\ model_location' # Empty
        /\ disk.kind = "json"
        /\ save_preferences_raises(preferences'))
          => /\ disk' = disk
             /\ fetch_preferences(disk') = fetch_preferences(disk)]_vars

====
